---- MODULE Spec2Model ----
(***************************************************************************)
(* Model of p2d-stats.py: aggregate "lines changed" per author across a    *)
(* list of repositories using git-quick-stats.                             *)
(*                                                                         *)
(* Text (str) is a sequence of one-character strings.  A Python dict is a  *)
(* sequence of <<key, value>> pairs in insertion order.  Python's 0-based  *)
(* line index n is the 1-based index n + 1 here; `start is None` is 0.     *)
(***************************************************************************)
EXTENDS Integers, Sequences, FiniteSets, TLC

\* ------------------------------------------------------------------ bounds
\* Longest repository list handed to gather_stats.
MaxRepos == 2

\* Most lines that follow the report prefix in an input of parse_detailed_stats.
MaxLines == 4

\* ------------------------------------------------------------------ text
Max(S) == CHOOSE x \in S : \A y \in S : y <= x

Min(S) == CHOOSE x \in S : \A y \in S : x <= y

\* str.strip() and the regex class \s: the whitespace of the modelled alphabet.
Whitespace == {" ", "\t", "\n"}

\* The regex class \d.
DigitChars == <<"0", "1", "2", "3", "4", "5", "6", "7", "8", "9">>

Digits == {DigitChars[n] : n \in DOMAIN DigitChars}

\* The literal searched for on line 54.
Marker ==
  <<"C","o","n","t","r","i","b","u","t","i","o","n"," ","s","t","a","t","s",
    " ","B","y"," ","A","u","t","h","o","r">>

\* The literal prefix of the regex on line 74.
LinesChangedPrefix ==
  <<"l","i","n","e","s"," ","c","h","a","n","g","e","d",":">>

\* str.splitlines(): cut at every "\n"; no empty last line after a final "\n".
SplitLines(text) ==
  LET breaks == {p \in DOMAIN text : text[p] = "\n"}
      starts == {1} \cup {p + 1 : p \in breaks}
      real   == {s \in starts : s <= Len(text)}
      EndOf(s) == Min({p \in breaks \cup {Len(text) + 1} : p >= s})
      Nth(n) == CHOOSE s \in real : Cardinality({t \in real : t < s}) = n - 1
  IN  [n \in 1..Cardinality(real) |-> SubSeq(text, Nth(n), EndOf(Nth(n)) - 1)]

\* str.strip(): drop leading and trailing whitespace.
Strip(s) ==
  LET keep == {p \in DOMAIN s : s[p] \notin Whitespace}
  IN  IF keep = {} THEN <<>> ELSE SubSeq(s, Min(keep), Max(keep))

\* `needle in line`.
Contains(line, needle) ==
  \E p \in 1..(Len(line) - Len(needle) + 1) :
    SubSeq(line, p, p + Len(needle) - 1) = needle

\* Length of the longest run of characters of `chars` in s starting at `from`.
RunLength(s, from, chars) ==
  LET stops == {q \in from..Len(s) : s[q] \notin chars}
  IN  IF stops = {} THEN Len(s) - from + 1 ELSE Min(stops) - from

\* int() of a digit string.
RECURSIVE IntOf(_)
IntOf(digits) ==
  IF digits = <<>> THEN 0
  ELSE 10 * IntOf(SubSeq(digits, 1, Len(digits) - 1))
       + (CHOOSE n \in 0..9 : DigitChars[n + 1] = digits[Len(digits)])

\* re.match(r"^(.+?) <.+?>:$", header): the lengths p of a group 1 for which the
\* rest of the header matches: " <" follows, then at least one character, then
\* ">:" ends the string.
HeaderSplits(header) ==
  {p \in 1..(Len(header) - 5) :
     /\ header[p + 1] = " "
     /\ header[p + 2] = "<"
     /\ header[Len(header) - 1] = ">"
     /\ header[Len(header)] = ":"}

IsHeader(header) == HeaderSplits(header) # {}

\* m.group(1).strip(): the lazy group takes the shortest split.
HeaderName(header) == Strip(SubSeq(header, 1, Min(HeaderSplits(header))))

\* re.match(r"^lines changed:\s+(\d+)", entry): group 1, or <<>> when there is
\* no match (a match always has at least one digit).
LinesChangedDigits(entry) ==
  LET n == Len(LinesChangedPrefix)
      w == RunLength(entry, n + 1, Whitespace)
      d == RunLength(entry, n + 1 + w, Digits)
  IN  IF /\ Len(entry) >= n
         /\ SubSeq(entry, 1, n) = LinesChangedPrefix
         /\ w >= 1
         /\ d >= 1
      THEN SubSeq(entry, n + 1 + w, n + w + d)
      ELSE <<>>

\* lines[i].startswith(" ")
StartsWithSpace(line) == Len(line) >= 1 /\ line[1] = " "

\* ------------------------------------------------------------------ dict
Keys(d) == {d[j][1] : j \in DOMAIN d}

\* d.get(key, default)
Get(d, key, default) ==
  IF key \in Keys(d) THEN d[CHOOSE j \in DOMAIN d : d[j][1] = key][2] ELSE default

\* d[key] = value: a new key goes last, an old key keeps its place.
Put(d, key, value) ==
  IF key \in Keys(d)
  THEN [j \in DOMAIN d |-> IF d[j][1] = key THEN <<key, value>> ELSE d[j]]
  ELSE Append(d, <<key, value>>)

\* ------------------------------------------------------------------ inputs
\* Report lines are built from these pieces.
Alice == <<"A","l","i","c","e">>

Bob == <<"B","o","b">>

Carol == <<"C","a","r","o","l">>

NoIndent == <<>>

SpaceIndent == <<" ">>

TabIndent == <<"\t">>

\* An author header as git-quick-stats prints it: `Name <email>:`.
HeaderLine(indent, author) == indent \o author \o <<" ","<","e",">",":">>

\* A `lines changed:` entry with the given text after the colon.
LinesChangedLine(indent, rest) == indent \o LinesChangedPrefix \o rest

\* The heading of the section, inside a longer line.
MarkerLine == <<" ">> \o Marker \o <<":">>

\* The captured stdout: every line followed by "\n".
RECURSIVE JoinLines(_)
JoinLines(ls) ==
  IF ls = <<>> THEN <<>> ELSE Head(ls) \o <<"\n">> \o JoinLines(Tail(ls))

\* Outputs of `git-quick-stats -T` in a run of gather_stats.
RunReports ==
  { JoinLines(<<MarkerLine, <<>>, HeaderLine(NoIndent, Alice),
                LinesChangedLine(SpaceIndent, <<" ","1","0">>)>>),
    JoinLines(<<MarkerLine, HeaderLine(NoIndent, Alice),
                LinesChangedLine(SpaceIndent, <<" ","5">>),
                HeaderLine(NoIndent, Bob),
                LinesChangedLine(SpaceIndent, <<" ","3">>)>>),
    JoinLines(<<MarkerLine, HeaderLine(NoIndent, Alice),
                LinesChangedLine(SpaceIndent, <<" ","5">>),
                HeaderLine(NoIndent, Bob),
                LinesChangedLine(SpaceIndent, <<" ","3">>),
                HeaderLine(NoIndent, Carol),
                LinesChangedLine(SpaceIndent, <<" ","1","5">>)>>),
    JoinLines(<<MarkerLine, HeaderLine(NoIndent, Carol),
                LinesChangedLine(SpaceIndent, <<" ","1","5">>),
                HeaderLine(NoIndent, Alice),
                LinesChangedLine(SpaceIndent, <<" ","1","5">>),
                HeaderLine(TabIndent, Bob),
                <<" ","c","o","m","m","i","t","s",":"," ","2">>>>),
    JoinLines(<<HeaderLine(NoIndent, Bob),
                LinesChangedLine(SpaceIndent, <<" ","7">>)>>) }

\* The lines an input of parse_detailed_stats is drawn from.
LinePool ==
  { HeaderLine(NoIndent, <<"A">>),
    HeaderLine(SpaceIndent, <<"B">>),
    LinesChangedLine(SpaceIndent, <<" ","5">>),
    LinesChangedLine(SpaceIndent, <<"\t","1","2"," ","(">>),
    LinesChangedLine(TabIndent, <<" ","3">>),
    LinesChangedLine(NoIndent, <<" ","9">>),
    LinesChangedLine(SpaceIndent, <<"4">>),
    HeaderLine(TabIndent, <<"A"," ">>),
    <<>> }

\* What precedes the drawn lines: nothing, the heading, or a header and the heading.
ReportPrefixes ==
  { <<>>, <<MarkerLine>>, <<HeaderLine(NoIndent, <<"B">>), MarkerLine>> }

\* Inputs of parse_detailed_stats checked on their own.
ParseOutputs ==
  { JoinLines(pre \o body) :
      pre \in ReportPrefixes,
      body \in UNION {[1..n -> LinePool] : n \in 0..MaxLines} }

\* Repository URLs; the first two derive the same local directory name.
Urls ==
  { <<"h",":","o","/","x",".","g","i","t">>,
    <<"h",":","p","/","x",".","g","i","t","/">>,
    <<"h",":","o","/","y",".","g","i","t">> }

\* The lists given to gather_stats (REPOS, shortened to MaxRepos entries).
RepoLists == UNION {[1..n -> Urls] : n \in 0..MaxRepos}

\* ------------------------------------------------------------------ state
VARIABLES
  installed,       \* git-quick-stats is on the PATH
  repos,           \* the list gather_stats iterates over
  pc,              \* position in the program
  k,               \* index in repos of the `for` loop
  td,              \* the temporary directory: "none", "exists", "deleted"
  checkouts,       \* directory names under the temporary directory
  ops,             \* subprocesses run so far: <<"clone"|"fetch"|"stats", k>>
  raised,          \* index of the repository whose subprocess raised, else 0
  total_per_user,  \* gather_stats: aggregated dict
  grand_total,     \* gather_stats: grand total
  history,         \* the repo_stats of every repository aggregated so far
  printed,         \* the report main() printed
  exit_code,       \* the process's exit status, -1 while it runs
  output,          \* parse_detailed_stats: its argument
  lines,           \* parse_detailed_stats: output.splitlines()
  i,               \* parse_detailed_stats: line index
  stats,           \* parse_detailed_stats: result dict
  name,            \* parse_detailed_stats: author of the open block
  lines_changed,   \* parse_detailed_stats: count of the open block
  hdr,             \* index of the open block's header line
  blocks           \* blocks closed so far: [name, hdr, end, count]

runVars == <<installed, repos, k, td, checkouts, ops, raised, total_per_user,
             grand_total, history, printed, exit_code>>

parseVars == <<output, lines, i, stats, name, lines_changed, hdr, blocks>>

vars == <<pc, runVars, parseVars>>

\* ------------------------------------------------------------------ the probe
\* Lines 26-30: what ensure_git_quick_stats_installed() does, given whether
\* `git-quick-stats -h` can be run.  Nothing in the file calls it: main() goes
\* straight to gather_stats, so no action below uses it.
EnsureGitQuickStatsInstalled(canRun) == IF canRun THEN "return" ELSE "exit"

\* ------------------------------------------------------------------ clone_or_update
\* repo_url.rstrip("/")
RStripSlash(url) ==
  LET keep == {p \in DOMAIN url : url[p] # "/"}
  IN  IF keep = {} THEN <<>> ELSE SubSeq(url, 1, Max(keep))

\* repo_url.rstrip("/").split("/")[-1]
DeriveName(url) ==
  LET s == RStripSlash(url)
      slashes == {p \in DOMAIN s : s[p] = "/"}
  IN  IF slashes = {} THEN s ELSE SubSeq(s, Max(slashes) + 1, Len(s))

\* Variant of DestExists: the checkout is never found.
DestExists_Never(dest, dirs) == FALSE

\* dest.exists(), dest = base_dir / name
DestExists(dest, dirs) == dest \in dirs

\* Variant of CheckTrue: check=False, a failed command is ignored.
CheckTrue_Ignored(ok, next) == next

\* subprocess.run(..., check=True): a failed command raises, which leaves the
\* `with` block; otherwise the program goes on to `next`.
CheckTrue(ok, next) == IF ok THEN next ELSE "td_exit"

\* ------------------------------------------------------------------ parse_detailed_stats
\* Variant of FindStart: without a marker the scan starts at the first line.
FindStart_FromTop(ls) ==
  IF \E j \in DOMAIN ls : Contains(ls[j], Marker)
  THEN Min({j \in DOMAIN ls : Contains(ls[j], Marker)}) + 1
  ELSE 1

\* Lines 52-56: the index after the first line holding the marker, 0 for None.
FindStart(ls) ==
  IF \E j \in DOMAIN ls : Contains(ls[j], Marker)
  THEN Min({j \in DOMAIN ls : Contains(ls[j], Marker)}) + 1
  ELSE 0

\* Variant of NextLinesChanged: a matching entry adds to the block's count.
NextLinesChanged_Accumulate(count, entry) ==
  IF LinesChangedDigits(entry) # <<>>
  THEN count + IntOf(LinesChangedDigits(entry))
  ELSE count

\* Lines 74-76: a matching entry overwrites the block's count.
NextLinesChanged(count, entry) ==
  IF LinesChangedDigits(entry) # <<>>
  THEN IntOf(LinesChangedDigits(entry))
  ELSE count

\* Variant of AddBlock: a later block replaces the author's count.
AddBlock_Overwrite(d, author, count) == Put(d, author, count)

\* Line 78: stats[name] = stats.get(name, 0) + lines_changed
AddBlock(d, author, count) == Put(d, author, Get(d, author, 0) + count)

\* Lines 49-58: split the output, look for the marker, return {} without it.
FindMarker ==
  /\ pc = "parse"
  /\ lines' = SplitLines(output)
  /\ stats' = <<>>
  /\ i' = FindStart(lines')
  /\ pc' = IF FindStart(lines') = 0 THEN "parsed" ELSE "scan"
  /\ UNCHANGED <<runVars, output, name, lines_changed, hdr, blocks>>

\* Lines 61-67: the line is no author header; go to the next line.
ScanSkip ==
  /\ pc = "scan"
  /\ i <= Len(lines)
  /\ \E header \in {Strip(lines[i])} : ~IsHeader(header)
  /\ i' = i + 1
  /\ UNCHANGED <<pc, runVars, output, lines, stats, name, lines_changed, hdr, blocks>>

\* Lines 61-64 and 68-71: the line is an author header; open its block.
ScanHeader ==
  /\ pc = "scan"
  /\ i <= Len(lines)
  /\ \E header \in {Strip(lines[i])} :
       /\ IsHeader(header)
       /\ name' = HeaderName(header)
  /\ hdr' = i
  /\ i' = i + 1
  /\ lines_changed' = 0
  /\ pc' = "block"
  /\ UNCHANGED <<runVars, output, lines, stats, blocks>>

\* Lines 61 and 79: no line is left; return stats.
ScanDone ==
  /\ pc = "scan"
  /\ i > Len(lines)
  /\ pc' = "parsed"
  /\ UNCHANGED <<runVars, parseVars>>

\* Lines 72-77: one indented line of the open block.
BlockLine ==
  /\ pc = "block"
  /\ i <= Len(lines)
  /\ StartsWithSpace(lines[i])
  /\ \E entry \in {Strip(lines[i])} :
       lines_changed' = NextLinesChanged(lines_changed, entry)
  /\ i' = i + 1
  /\ UNCHANGED <<pc, runVars, output, lines, stats, name, hdr, blocks>>

\* Lines 72 and 78: the block is over; add its count to the author's.
BlockEnd ==
  /\ pc = "block"
  /\ ~(i <= Len(lines) /\ StartsWithSpace(lines[i]))
  /\ stats' = AddBlock(stats, name, lines_changed)
  /\ blocks' = Append(blocks, [name |-> name, hdr |-> hdr, end |-> i,
                               count |-> lines_changed])
  /\ pc' = "scan"
  /\ UNCHANGED <<runVars, output, lines, i, name, lines_changed, hdr>>

\* ------------------------------------------------------------------ gather_stats
\* Variant of AddCount: a later repository replaces the user's total.
AddCount_Overwrite(d, user, count) == Put(d, user, count)

\* Line 100: total_per_user[user] = total_per_user.get(user, 0) + count
AddCount(d, user, count) == Put(d, user, Get(d, user, 0) + count)

\* Lines 99-101: the loop over repo_stats.items(); <<total_per_user, grand_total>>.
RECURSIVE AddItems(_, _, _)
AddItems(total, grand, items) ==
  IF items = <<>> THEN <<total, grand>>
  ELSE AddItems(AddCount(total, Head(items)[1], Head(items)[2]),
                grand + Head(items)[2], Tail(items))

\* Variant of Cleanup: nothing is removed while an exception is leaving.
Cleanup_OnSuccessOnly(failed, dirs) ==
  IF failed = 0 THEN <<"deleted", {}>> ELSE <<"exists", dirs>>

\* TemporaryDirectory.__exit__: the directory and all under it are removed,
\* whether or not an exception is leaving the block.
Cleanup(failed, dirs) == <<"deleted", {}>>

\* Lines 81-86: the totals start empty and the temporary directory is made.
GatherStatsEnter ==
  /\ pc = "main"
  /\ total_per_user' = <<>>
  /\ grand_total' = 0
  /\ td' = "exists"
  /\ checkouts' = {}
  /\ k' = 1
  /\ pc' = "loop"
  /\ UNCHANGED <<installed, repos, ops, raised, history, printed, exit_code, parseVars>>

\* Lines 32-41 and 88: fetch into an existing checkout, else clone.  A clone
\* that fails may leave its directory behind.
CloneOrUpdate ==
  /\ pc = "loop"
  /\ k <= Len(repos)
  /\ \E ok \in BOOLEAN, left \in BOOLEAN :
       LET dest == DeriveName(repos[k]) IN
       /\ IF DestExists(dest, checkouts)
          THEN /\ ops' = Append(ops, <<"fetch", k>>)
               /\ checkouts' = checkouts
               /\ left = FALSE
          ELSE /\ ops' = Append(ops, <<"clone", k>>)
               /\ checkouts' = IF ok \/ left THEN checkouts \cup {dest} ELSE checkouts
               /\ (ok => left = FALSE)
       /\ raised' = IF ok THEN 0 ELSE k
       /\ pc' = CheckTrue(ok, "stats")
  /\ UNCHANGED <<installed, repos, k, td, total_per_user, grand_total, history,
                 printed, exit_code, parseVars>>

\* Lines 90-97: run git-quick-stats -T in the checkout and capture its stdout.
\* Without the command subprocess.run raises FileNotFoundError.
RunStats ==
  /\ pc = "stats"
  /\ ops' = Append(ops, <<"stats", k>>)
  /\ \E ok \in BOOLEAN, report \in RunReports :
       /\ (~installed => ~ok)
       /\ output' = IF ok THEN report ELSE output
       /\ raised' = IF ok THEN 0 ELSE k
       /\ pc' = CheckTrue(ok, "parse")
  /\ UNCHANGED <<installed, repos, k, td, checkouts, total_per_user, grand_total,
                 history, printed, exit_code, lines, i, stats, name,
                 lines_changed, hdr, blocks>>

\* Lines 98-101: add the parsed counts; the parser's locals are gone.
Aggregate ==
  /\ pc = "parsed"
  /\ total_per_user' = AddItems(total_per_user, grand_total, stats)[1]
  /\ grand_total' = AddItems(total_per_user, grand_total, stats)[2]
  /\ history' = Append(history, stats)
  /\ k' = k + 1
  /\ pc' = "loop"
  /\ output' = <<>>
  /\ lines' = <<>>
  /\ i' = 0
  /\ stats' = <<>>
  /\ name' = <<>>
  /\ lines_changed' = 0
  /\ hdr' = 0
  /\ blocks' = <<>>
  /\ UNCHANGED <<installed, repos, td, checkouts, ops, raised, printed, exit_code>>

\* Line 87: the list is exhausted.
LoopDone ==
  /\ pc = "loop"
  /\ k > Len(repos)
  /\ pc' = "td_exit"
  /\ UNCHANGED <<runVars, parseVars>>

\* Line 85, leaving the `with` block: clean up; an exception then reaches the
\* top level and ends the process with status 1.
TempDirExit ==
  /\ pc = "td_exit"
  /\ td' = Cleanup(raised, checkouts)[1]
  /\ checkouts' = Cleanup(raised, checkouts)[2]
  /\ pc' = IF raised = 0 THEN "report" ELSE "exit"
  /\ exit_code' = IF raised = 0 THEN exit_code ELSE 1
  /\ UNCHANGED <<installed, repos, k, ops, raised, total_per_user, grand_total,
                 history, printed, parseVars>>

\* ------------------------------------------------------------------ main
\* Variant of RankDesc: equal counts come out in reverse order of insertion.
RankDesc_TiesReversed(items, j) ==
  1 + Cardinality({m \in DOMAIN items :
                     \/ items[m][2] > items[j][2]
                     \/ items[m][2] = items[j][2] /\ m > j})

\* The place of items[j] in a stable sort by descending count: after every
\* item of a greater count and every earlier item of the same count.
RankDesc(items, j) ==
  1 + Cardinality({m \in DOMAIN items :
                     \/ items[m][2] > items[j][2]
                     \/ items[m][2] = items[j][2] /\ m < j})

\* Line 109: sorted(totals.items(), key=lambda kv: kv[1], reverse=True)
SortedByCountDesc(items) ==
  [r \in 1..Len(items) |-> items[CHOOSE j \in DOMAIN items : RankDesc(items, j) = r]]

\* Lines 108-112: one line per author, then the grand total; exit status 0.
Report ==
  /\ pc = "report"
  /\ \E listing \in {SortedByCountDesc(total_per_user)} :
       printed' = [j \in DOMAIN listing |-> <<"user", listing[j][1], listing[j][2]>>]
                  \o << <<"grand", <<>>, grand_total>> >>
  /\ exit_code' = 0
  /\ pc' = "exit"
  /\ UNCHANGED <<installed, repos, k, td, checkouts, ops, raised, total_per_user,
                 grand_total, history, parseVars>>

\* ------------------------------------------------------------------ specifications
ParseIdle ==
  /\ lines = <<>>
  /\ i = 0
  /\ stats = <<>>
  /\ name = <<>>
  /\ lines_changed = 0
  /\ hdr = 0
  /\ blocks = <<>>

RunIdle ==
  /\ k = 0
  /\ td = "none"
  /\ checkouts = {}
  /\ ops = <<>>
  /\ raised = 0
  /\ total_per_user = <<>>
  /\ grand_total = 0
  /\ history = <<>>
  /\ printed = <<>>
  /\ exit_code = -1

\* A run of main() on some list, with or without git-quick-stats installed.
Init ==
  /\ installed \in BOOLEAN
  /\ repos \in RepoLists
  /\ pc = "main"
  /\ output = <<>>
  /\ RunIdle
  /\ ParseIdle

ParseNext ==
  \/ FindMarker
  \/ ScanSkip
  \/ ScanHeader
  \/ ScanDone
  \/ BlockLine
  \/ BlockEnd

Next ==
  \/ GatherStatsEnter
  \/ CloneOrUpdate
  \/ RunStats
  \/ ParseNext
  \/ Aggregate
  \/ LoopDone
  \/ TempDirExit
  \/ Report

Spec == Init /\ [][Next]_vars

\* The program is sequential and takes every step it can take: no step that
\* stays possible is put off for ever.
Fairness ==
  /\ WF_vars(GatherStatsEnter)
  /\ WF_vars(CloneOrUpdate)
  /\ WF_vars(RunStats)
  /\ WF_vars(FindMarker)
  /\ WF_vars(ScanSkip)
  /\ WF_vars(ScanHeader)
  /\ WF_vars(ScanDone)
  /\ WF_vars(BlockLine)
  /\ WF_vars(BlockEnd)
  /\ WF_vars(Aggregate)
  /\ WF_vars(LoopDone)
  /\ WF_vars(TempDirExit)
  /\ WF_vars(Report)

FairSpec == Spec /\ Fairness

\* A call of parse_detailed_stats on its own, on any of ParseOutputs.
ParseInit ==
  /\ installed = TRUE
  /\ repos = <<>>
  /\ pc = "parse"
  /\ output \in ParseOutputs
  /\ RunIdle
  /\ ParseIdle

ParseSpec == ParseInit /\ [][ParseNext]_vars

\* ------------------------------------------------------------------ claims
\* Helpers of the statements below.
RECURSIVE SumValues(_)
SumValues(d) == IF d = <<>> THEN 0 ELSE Head(d)[2] + SumValues(Tail(d))

RECURSIVE SumOfKey(_, _)
SumOfKey(dicts, key) ==
  IF dicts = <<>> THEN 0 ELSE Get(Head(dicts), key, 0) + SumOfKey(Tail(dicts), key)

RECURSIVE SumOfAll(_)
SumOfAll(dicts) ==
  IF dicts = <<>> THEN 0 ELSE SumValues(Head(dicts)) + SumOfAll(Tail(dicts))

RECURSIVE SumOfBlocks(_, _)
SumOfBlocks(bs, author) ==
  IF bs = <<>> THEN 0
  ELSE (IF Head(bs).name = author THEN Head(bs).count ELSE 0)
       + SumOfBlocks(Tail(bs), author)

PositionOf(d, key) == CHOOSE j \in DOMAIN d : d[j][1] = key

HasMarker(ls) == \E j \in DOMAIN ls : Contains(ls[j], Marker)

BeginsWithWhitespace(line) == Len(line) >= 1 /\ line[1] \in Whitespace

\* The entries of the lines hdr+1 .. end-1 that match `lines changed: <integer>`.
MatchesIn(ls, first, last) ==
  {j \in first..last : LinesChangedDigits(Strip(ls[j])) # <<>>}

\* C1: when git-quick-stats is missing, a run of main() stops at the startup
\* probe: no clone, fetch or stats subprocess is ever run, and the exit status
\* is not zero.
C1_ProbeBeforeAnyRepository ==
  ~installed => (ops = <<>> /\ (pc = "exit" => exit_code # 0))

\* C2: once the temporary directory exists it is eventually deleted, with every
\* checkout under it, whatever way the run ends.
C2_TempDirEventuallyDeleted ==
  [](td = "exists" => <>(td = "deleted" /\ checkouts = {}))

\* C2 witness: a run that failed after a clone has ended with nothing left.
C2_Witness ==
  /\ pc = "exit"
  /\ raised # 0
  /\ Len(ops) >= 3
  /\ td = "deleted"
  /\ checkouts = {}

\* C3: a failed clone, fetch or stats command for repository number `raised`
\* ends the run there: no subprocess for a later repository, none run twice,
\* nothing printed, exit status not zero.  The report is printed, and the exit
\* status is zero, only when every repository of the list was cloned or
\* fetched, analysed and aggregated.
C3_FailureAbortsRun ==
  /\ raised # 0 =>
       /\ pc \in {"td_exit", "exit"}
       /\ \A j \in DOMAIN ops : ops[j][2] <= raised
       /\ \A j1, j2 \in DOMAIN ops : ops[j1] = ops[j2] => j1 = j2
       /\ ops[Len(ops)][2] = raised
       /\ Len(history) = raised - 1
       /\ printed = <<>>
       /\ exit_code # 0
       /\ (pc = "exit" => exit_code = 1)
  /\ (printed # <<>> \/ exit_code = 0) =>
       /\ raised = 0
       /\ pc = "exit"
       /\ exit_code = 0
       /\ printed # <<>>
       /\ Len(history) = Len(repos)
       /\ \A m \in DOMAIN repos :
            /\ \E j \in DOMAIN ops : ops[j] \in {<<"clone", m>>, <<"fetch", m>>}
            /\ \E j \in DOMAIN ops : ops[j] = <<"stats", m>>

\* C3 witness: the first of two repositories failed and the process has exited.
C3_Witness ==
  /\ pc = "exit"
  /\ Len(repos) = 2
  /\ raised = 1
  /\ exit_code = 1
  /\ printed = <<>>

\* C4: after any prefix of the list, total_per_user holds for every author the
\* sum of that author's parsed counts over the repositories processed, and
\* grand_total is the sum of all those counts, which is the sum of the values
\* of total_per_user.
C4_TotalsAreSums ==
  /\ Keys(total_per_user) = UNION {Keys(history[j]) : j \in DOMAIN history}
  /\ \A j1, j2 \in DOMAIN total_per_user :
       total_per_user[j1][1] = total_per_user[j2][1] => j1 = j2
  /\ \A a \in Keys(total_per_user) :
       Get(total_per_user, a, 0) = SumOfKey(history, a)
  /\ grand_total = SumOfAll(history)
  /\ grand_total = SumValues(total_per_user)

\* C4 witness: {Alice: 10} and {Alice: 5, Bob: 3} gave {Alice: 15, Bob: 3}, 18.
C4_Witness ==
  /\ history = << << <<Alice, 10>> >>, << <<Alice, 5>>, <<Bob, 3>> >> >>
  /\ total_per_user = << <<Alice, 15>>, <<Bob, 3>> >>
  /\ grand_total = 18

\* C5: a report with no marker line parses to the empty mapping, and
\* aggregating it leaves total_per_user and grand_total as they were and moves
\* on to the next repository.
C5_NoMarkerNoAuthors ==
  [][(pc = "parsed" /\ ~Contains(output, Marker))
       => /\ stats = <<>>
          /\ total_per_user' = total_per_user
          /\ grand_total' = grand_total
          /\ raised' = 0
          /\ k' = k + 1
          /\ pc' = "loop"]_vars

\* C5 witness: a marker-less report holding an author header has been parsed
\* while the totals of an earlier repository are held.
C5_Witness ==
  /\ pc = "parsed"
  /\ k = 2
  /\ total_per_user # <<>>
  /\ ~HasMarker(lines)
  /\ \E j \in DOMAIN lines : IsHeader(Strip(lines[j]))
  /\ stats = <<>>

\* C6: when a block closes, its author's entry grows by the integer of the last
\* `lines changed: <integer>` line of the block, or by 0 when the block has
\* none, and the author is a key of the mapping either way.
C6_LastMatchWins ==
  [][(pc = "block" /\ pc' = "scan")
       => LET m == MatchesIn(lines, hdr + 1, i - 1)
              c == IF m = {} THEN 0
                   ELSE IntOf(LinesChangedDigits(Strip(lines[Max(m)])))
          IN  /\ name \in Keys(stats')
              /\ Get(stats', name, 0) = Get(stats, name, 0) + c
              /\ blocks'[Len(blocks')].count = c]_vars

\* C6 witness: a closed block with two matching lines of different integers,
\* and a closed block with none.
C6_Witness ==
  /\ \E n \in DOMAIN blocks :
       LET m == MatchesIn(lines, blocks[n].hdr + 1, blocks[n].end - 1)
       IN  /\ Cardinality(m) >= 2
           /\ LinesChangedDigits(Strip(lines[Min(m)]))
                # LinesChangedDigits(Strip(lines[Max(m)]))
           /\ blocks[n].count = IntOf(LinesChangedDigits(Strip(lines[Max(m)])))
  /\ \E n \in DOMAIN blocks :
       /\ MatchesIn(lines, blocks[n].hdr + 1, blocks[n].end - 1) = {}
       /\ blocks[n].count = 0
       /\ Get(stats, blocks[n].name, -1) = 0

\* C7: the mapping holds, for every author, the sum of the counts of all the
\* blocks closed under that author's name.
C7_RepeatedAuthorSums ==
  /\ Keys(stats) = {blocks[n].name : n \in DOMAIN blocks}
  /\ \A a \in Keys(stats) : Get(stats, a, 0) = SumOfBlocks(blocks, a)

\* C7 witness: the parse returned with two blocks of one author, both counted.
C7_Witness ==
  /\ pc = "parsed"
  /\ \E n1, n2 \in DOMAIN blocks :
       /\ n1 < n2
       /\ blocks[n1].name = blocks[n2].name
       /\ blocks[n1].count > 0
       /\ blocks[n2].count > 0
       /\ Get(stats, blocks[n1].name, 0) = blocks[n1].count + blocks[n2].count

\* C8: the report lists every aggregated author once with that author's total,
\* in descending order of total, equal totals in the order of insertion into
\* the aggregate, and ends with the grand total.
C8_SortedStableReport ==
  printed # <<>> =>
    LET n == Len(printed) - 1 IN
    /\ n = Len(total_per_user)
    /\ \A j \in 1..n :
         /\ printed[j][1] = "user"
         /\ printed[j][2] \in Keys(total_per_user)
         /\ printed[j][3] = Get(total_per_user, printed[j][2], -1)
    /\ \A j1, j2 \in 1..n :
         j1 < j2 =>
           /\ printed[j1][2] # printed[j2][2]
           /\ \/ printed[j1][3] > printed[j2][3]
              \/ /\ printed[j1][3] = printed[j2][3]
                 /\ PositionOf(total_per_user, printed[j1][2])
                      < PositionOf(total_per_user, printed[j2][2])
    /\ printed[n + 1] = <<"grand", <<>>, grand_total>>

\* C8 witness: {Alice: 15, Bob: 3, Carol: 15} printed as Alice, Carol, Bob.
C8_Witness ==
  /\ total_per_user = << <<Alice, 15>>, <<Bob, 3>>, <<Carol, 15>> >>
  /\ printed = << <<"user", Alice, 15>>, <<"user", Carol, 15>>,
                  <<"user", Bob, 3>>, <<"grand", <<>>, 33>> >>

\* C9: a block is the maximal run of lines after its header that begin with a
\* whitespace character (space or tab): every line of it begins with
\* whitespace, the line it ends at does not, and so every whitespace-indented
\* `lines changed: N` line right under a header is counted for that header.
C9_BlockIsMaximalWhitespaceRun ==
  [][(pc = "block" /\ pc' = "scan")
       => /\ \A j \in (hdr + 1)..(i - 1) : BeginsWithWhitespace(lines[j])
          /\ (i <= Len(lines) => ~BeginsWithWhitespace(lines[i]))]_vars

\* C10: list entry m is fetched exactly when an earlier entry derives the same
\* directory name, and is cloned otherwise; each entry gets one clone or fetch,
\* right before its stats command.
C10_FetchIffEarlierSameName ==
  \A j \in DOMAIN ops :
    LET m == ops[j][2] IN
    /\ m = (j + 1) \div 2
    /\ m \in DOMAIN repos
    /\ (j % 2 = 0) = (ops[j][1] = "stats")
    /\ (j % 2 = 1) =>
         /\ ops[j][1] \in {"clone", "fetch"}
         /\ (ops[j][1] = "fetch")
              = (\E e \in 1..(m - 1) : DeriveName(repos[e]) = DeriveName(repos[m]))

\* C10 witness: two different URLs of one name: the first cloned, the second
\* fetched, both analysed.
C10_Witness ==
  /\ Len(repos) = 2
  /\ repos[1] # repos[2]
  /\ ops = << <<"clone", 1>>, <<"stats", 1>>, <<"fetch", 2>>, <<"stats", 2>> >>

====
